---- MODULE Spec2Model ----
(***************************************************************************)
(* Credential verification, token issuance, rotation and revocation of the *)
(* PhotoFilter Pro API (src/server.js, first server, lines 1-2259) over    *)
(* the DynamoDB user repository (src/unnamed/part_000, class               *)
(* UserRepository).                                                        *)
(*                                                                         *)
(* Every request handler is an async function.  Its synchronous prefix is  *)
(* one action (Start...), and every awaited store call is one action: the  *)
(* store call takes effect at one instant, and the synchronous code that   *)
(* follows it (up to the next await or to the response) runs in the same   *)
(* step.  Requests of different clients interleave at the awaits.          *)
(***************************************************************************)
EXTENDS Integers, Sequences, FiniteSets, TLC

\* ------------------------------------------------------------------ bounds
MaxRequests == 2        \* requests started in one behaviour of Spec
MaxTicks == 1           \* clock advances in one behaviour of Spec
MaxFaults == 1          \* store calls that throw in one behaviour of Spec
MaxAccountRequests == 3 \* requests started in one behaviour of SpecAccounts
MaxRaceRequests == 3    \* requests started in one behaviour of SpecRace
MaxShareRequests == 3   \* requests started in one behaviour of SpecShare
MaxShareTicks == 1      \* clock advances in one behaviour of SpecShare
MaxMillis == 1          \* milliseconds the clock advances within a second
MaxClientRequests == 4  \* requests the browser client sends in SpecClient
MaxClientTicks == 2     \* clock advances in one behaviour of SpecClient
MaxSessionRequests == 2 \* requests started in one behaviour of SpecSession
MaxSessionTicks == 1    \* clock advances in one behaviour of SpecSession
MaxCallRequests == 6    \* requests the concurrent calls send in SpecCalls
MaxCallTicks == 1       \* clock advances in one behaviour of SpecCalls

\* ------------------------------------------------------- program constants
JWT_EXPIRES_IN == 86400             \* '24h', in seconds
REFRESH_TOKEN_EXPIRES_IN == 604800  \* '7d', in seconds

Procs == {"p1", "p2"}                    \* requests in flight at once
ScanOrder == <<"aaron", "anter", "bob">> \* items of the partition, by sort key
AllNames == {ScanOrder[i] : i \in 1..Len(ScanOrder)}
Passwords == {"kingkong", "hunter2"}
Emails == {"", "a@example.com"}
TickSteps == {1, JWT_EXPIRES_IN, REFRESH_TOKEN_EXPIRES_IN}
CognitoModes == {"absent", "noVerifier", "ready"}

VARIABLES
    store,      \* the DynamoDB table: username -> item, or NoUser
    clock,      \* Date.now() in whole seconds
    ticks,      \* clock advances still to come
    cognito,    \* how the external verifier is configured
    uuidNext,   \* the next value uuidv4() returns
    pc,         \* per request slot: the await the handler stands at
    loc,        \* per request slot: the handler's locals
    last,       \* the response this step sent, NoResp when it sent none
    issued,     \* every local token a response has returned
    redeemed,   \* refresh tokens a successful refresh was presented with
    revoked,    \* refresh tokens issued before a completed logout of their user
    consumed,   \* verification tokens a verify-email has accepted or cleared
    replaced,   \* verification tokens a resend-verification has overwritten
    verified,   \* verification tokens a verify-email has answered 200 for
    left,       \* refresh tokens a store write has taken out of their user's set
    millis,     \* Date.now(), its milliseconds within the second of clock
    shares,     \* sharedImages: the entries of the in-memory Map
    minted,     \* every entry sharedImages.set has ever stored
    client,     \* the browser client: its tokens and where its code stands
    inbox,      \* the response the browser client's fetch resolved to
    calls,      \* the client's concurrent calls of makeAuthenticatedRequest
    nreq,       \* requests still to come
    faults      \* store calls that may still throw

vars == <<store, clock, ticks, cognito, uuidNext, pc, loc, last, issued,
          redeemed, revoked, consumed, replaced, verified, left, millis,
          shares, minted, client, inbox, calls, nreq, faults>>

\* ------------------------------------------------------------------ values
NoUser == [username |-> ""]
NoToken == [iss |-> "none", id |-> "", username |-> "", type |-> "",
            iat |-> 0, exp |-> 0, sig |-> ""]
NoResp == [op |-> "none"]
Ok == 200

\* bcrypt.hash / bcrypt.compare; an item without a password attribute has <<>>
BcryptHash(password) == <<"$2a$10$", password>>
BcryptCompare(password, hash) == hash = BcryptHash(password)

\* jwt.sign(payload, JWT_SECRET, {expiresIn}): HS256 over {payload, iat, exp},
\* iat = floor(now / 1000); the same claims in the same second give the same token
JwtSign(id, username, type, ttl, now) ==
    [iss |-> "local", id |-> id, username |-> username, type |-> type,
     iat |-> now, exp |-> now + ttl, sig |-> "ok"]

SignAccess(user, now) == JwtSign(user.id, user.username, "", JWT_EXPIRES_IN, now)
SignRefresh(user, now) ==
    JwtSign(user.id, user.username, "refresh", REFRESH_TOKEN_EXPIRES_IN, now)

\* jwt.verify(token, JWT_SECRET): signature first, then expiry
JwtVerifyMissesExpiry(token, now) ==
    IF token.iss # "local" \/ token.sig # "ok" THEN "JsonWebTokenError" ELSE "ok"

JwtVerify(token, now) ==
    IF token.iss # "local" \/ token.sig # "ok" THEN "JsonWebTokenError"
    ELSE IF now >= token.exp THEN "TokenExpiredError"
    ELSE "ok"

\* a client altering a token it holds: the signature no longer matches
Tamper(token) == [token EXCEPT !.sig = "bad"]

\* tokens of the external identity provider; sig says what its verifier finds.
\* The user pool has its own usernames: one of its accounts is named like the
\* local default user.
CognitoTokens ==
    {[iss |-> "cognito", id |-> "sub-bob", username |-> "bob", type |-> "id",
      iat |-> 0, exp |-> 0, sig |-> s] : s \in {"ok", "expired", "bad"}}
    \cup {[iss |-> "cognito", id |-> "sub-anter", username |-> "anter",
            type |-> "id", iat |-> 0, exp |-> 0, sig |-> "ok"]}

\* CognitoHelper.verifyToken: "ok", or the error it throws
CognitoVerifyToken(token) ==
    IF cognito = "noVerifier" THEN "NotInitialized"
    ELSE IF token.iss # "cognito" THEN "NotApplicable"
    ELSE IF token.sig = "ok" THEN "ok"
    ELSE IF token.sig = "expired" THEN "Expired"
    ELSE "Invalid"

\* ------------------------------------------------------------ the repository
BlankItem(username) ==
    [username |-> username, id |-> "", password |-> <<>>, email |-> "",
     emailVerified |-> FALSE, emailVerificationToken |-> 0,
     refreshTokens |-> <<>>]

\* UpdateCommand creates the item when the key has none
ItemOrBlank(username) ==
    IF store[username] = NoUser THEN BlankItem(username) ELSE store[username]

Filter(seq, token) == SelectSeq(seq, LAMBDA t : t # token)
Includes(seq, token) == \E i \in 1..Len(seq) : seq[i] = token

HasRefreshTokenAlways(user, token) == user # NoUser

HasRefreshToken(user, token) ==
    user # NoUser /\ Includes(user.refreshTokens, token)

\* Scan with Limit 1: DynamoDB evaluates one item, the first of the
\* partition in sort-key order, and then applies the filter to it
FirstItem ==
    IF \A n \in AllNames : store[n] = NoUser THEN NoUser
    ELSE store[ScanOrder[CHOOSE i \in 1..Len(ScanOrder) :
                    /\ store[ScanOrder[i]] # NoUser
                    /\ \A j \in 1..(i - 1) : store[ScanOrder[j]] = NoUser]]

GetUserByVerificationToken(token) ==
    IF FirstItem # NoUser /\ FirstItem.emailVerificationToken = token
    THEN FirstItem ELSE NoUser

\* ---------------------------------------------------------- shared images
\* processedDir: the files are named <imageId>-<filterName>-...png
Processed ==
    {[imageId |-> "img1", filterName |-> "sepia"],
     [imageId |-> "img1", filterName |-> "blur"]}
NoFile == [imageId |-> "", filterName |-> ""]
ImageIds == {"", "img1", "img9"}
FilterNames == {"sepia"}
ExpiresInHours == {0, 24}
HourMs == 60 * 60 * 1000
NoShare == [token |-> 0, filename |-> NoFile, expiresAt |-> 0, hours |-> 0]

\* Date.now()
DateNow == clock * 1000 + millis

\* processed.find(file => file.startsWith(imageId) && file.includes(filterName))
FindProcessed(imageId, filterName) ==
    IF \E f \in Processed : f.imageId = imageId /\ f.filterName = filterName
    THEN CHOOSE f \in Processed : f.imageId = imageId /\ f.filterName = filterName
    ELSE NoFile

\* sharedImages.get(token)
SharedImagesGet(token) ==
    IF \E e \in shares : e.token = token
    THEN CHOOSE e \in shares : e.token = token
    ELSE NoShare

ShareNeverExpires(sharedImage, now) == FALSE

\* new Date(sharedImage.expiresAt) < new Date()
ShareExpired(sharedImage, now) == sharedImage.expiresAt < now

\* ------------------------------------------------------------------ Init
NoInput ==
    [tok |-> NoToken, username |-> "", password |-> "", email |-> "",
     vtok |-> 0, now |-> 0, wasRedeemed |-> FALSE, wasRevoked |-> FALSE,
     wasConsumed |-> FALSE, wasReplaced |-> FALSE, from |-> "any",
     share |-> 0, imageId |-> "", filterName |-> "", hours |-> 0,
     nowMs |-> 0, wasStored |-> FALSE]
NoObs ==
    [found |-> "-", member |-> "-", again |-> FALSE, threw |-> FALSE,
     wrote |-> FALSE, file |-> "", share |-> 0, expiresAt |-> 0,
     held |-> FALSE]
\* the page is not loaded
NoClient ==
    [at |-> "closed", authToken |-> NoToken, refreshToken |-> NoToken,
     username |-> "", refreshes |-> 0, fetches |-> 0, sent |-> NoToken,
     first |-> 0, returned |-> 0, pre |-> FALSE, held |-> NoToken]
\* a call of makeAuthenticatedRequest that has not sent its request yet
CallIds == {"c1", "c2"}
NoCall ==
    [at |-> "request", inbox |-> NoResp, body |-> NoToken, first |-> 0,
     tok |-> NoToken, rtok |-> NoToken, valid |-> FALSE]
IdleLoc ==
    [op |-> "none", in |-> NoInput, solo |-> FALSE, obs |-> NoObs,
     user |-> NoUser, token |-> NoToken, refreshToken |-> NoToken,
     updatedTokens |-> <<>>, uuid |-> 0]

DefaultUser ==
    [username |-> "anter", id |-> "anter", password |-> BcryptHash("kingkong"),
     email |-> "anter@example.com", emailVerified |-> TRUE,
     emailVerificationToken |-> 0, refreshTokens |-> <<>>]

\* The table outlives the server: the default user holds the refresh tokens
\* of two sessions, opened in second 0 and in second 1, and it is second 1.
Start(modes, requests, clockTicks, storeFaults) ==
    /\ store = [n \in AllNames |->
                   IF n = "anter"
                   THEN [DefaultUser EXCEPT !.refreshTokens =
                            <<SignRefresh(DefaultUser, 0), SignRefresh(DefaultUser, 1)>>]
                   ELSE NoUser]
    /\ issued = {SignAccess(DefaultUser, 0), SignRefresh(DefaultUser, 0),
                 SignAccess(DefaultUser, 1), SignRefresh(DefaultUser, 1)}
    /\ clock = 1
    /\ ticks = clockTicks
    /\ cognito \in modes
    /\ uuidNext = 1
    /\ pc = [p \in Procs |-> "idle"]
    /\ loc = [p \in Procs |-> IdleLoc]
    /\ last = NoResp
    /\ redeemed = {}
    /\ revoked = {}
    /\ consumed = {}
    /\ replaced = {}
    /\ verified = {}
    /\ left = {}
    /\ millis = 0
    /\ shares = {}
    /\ minted = {}
    /\ client = NoClient
    /\ inbox = NoResp
    /\ calls = [c \in CallIds |-> NoCall]
    /\ nreq = requests
    /\ faults = storeFaults

\* ------------------------------------------------------- request plumbing
Others(p) == Procs \ {p}
Alone(p) == \A q \in Others(p) : pc[q] = "idle"
\* request slots are anonymous: a new request takes the first free one
FreeSlot(p) == pc[p] = "idle" /\ (p = "p2" => pc["p1"] # "idle")

\* a request arrives: the synchronous prefix of its handler has run
Begin(p, op, in, next) ==
    /\ FreeSlot(p)
    /\ nreq > 0
    /\ nreq' = nreq - 1
    /\ pc' = [pc EXCEPT ![p] = next]
    /\ loc' = [q \in Procs |->
                IF q = p
                THEN [IdleLoc EXCEPT !.op = op, !.in = in, !.solo = Alone(p)]
                ELSE IF pc[q] = "idle" THEN loc[q]
                ELSE [loc[q] EXCEPT !.solo = FALSE]]
    /\ last' = NoResp
    /\ UNCHANGED <<client, inbox, calls>>

Response(l, status, message, token, refreshToken) ==
    [op |-> l.op, status |-> status, message |-> message, token |-> token,
     refreshToken |-> refreshToken, in |-> l.in, solo |-> l.solo,
     obs |-> l.obs]

\* res.status(status).json(...) of a request that is standing at an await
Reply(p, l, status, message, token, refreshToken) ==
    /\ last' = Response(l, status, message, token, refreshToken)
    /\ pc' = [pc EXCEPT ![p] = "idle"]
    /\ loc' = [loc EXCEPT ![p] = IdleLoc]
    /\ nreq' = nreq
    /\ inbox' = IF l.in.from = "client"
                THEN Response(l, status, message, token, refreshToken)
                ELSE inbox
    /\ calls' = IF l.in.from \in CallIds
                THEN [calls EXCEPT ![l.in.from].inbox =
                         Response(l, status, message, token, refreshToken)]
                ELSE calls
    /\ client' = client

\* a request answered by its synchronous prefix, without any store call
ReplyAtOnce(p, op, in, status, message) ==
    /\ FreeSlot(p)
    /\ nreq > 0
    /\ nreq' = nreq - 1
    /\ last' = Response([IdleLoc EXCEPT !.op = op, !.in = in, !.solo = Alone(p)],
                        status, message, NoToken, NoToken)
    /\ inbox' = IF in.from = "client" THEN last' ELSE inbox
    /\ calls' = IF in.from \in CallIds
                THEN [calls EXCEPT ![in.from].inbox = last']
                ELSE calls
    /\ UNCHANGED <<pc, loc, client>>

Goto(p, l, next) ==
    /\ pc' = [pc EXCEPT ![p] = next]
    /\ loc' = [loc EXCEPT ![p] = l]
    /\ last' = NoResp
    /\ nreq' = nreq
    /\ UNCHANGED <<client, inbox, calls>>

AddRefreshTokenDropped(username, token) == store

\* list_append(if_not_exists(refreshTokens, []), [token])
AddRefreshToken(username, token) ==
    [store EXCEPT ![username] =
        [ItemOrBlank(username) EXCEPT !.refreshTokens = Append(@, token)]]

\* SET refreshTokens = :tokens
SetRefreshTokens(username, tokens) ==
    [store EXCEPT ![username] =
        [ItemOrBlank(username) EXCEPT !.refreshTokens = tokens]]

Issue(tokens) ==
    /\ issued' = issued \cup tokens
    /\ revoked' = revoked \ tokens

\* the tokens a SET of the list takes out of the user's stored set
Dropped(username, tokens) ==
    {t \in issued : /\ Includes(ItemOrBlank(username).refreshTokens, t)
                    /\ ~Includes(tokens, t)}

\* what a client can put in a request: a token it was given, one it altered,
\* a token of the identity provider, or nothing
Presentable == issued \cup {Tamper(t) : t \in issued} \cup CognitoTokens
Bearer == Presentable \cup {NoToken}

\* ------------------------------------------------------------------ clock
\* a second passes at any moment; the long waits are taken between requests
\* and between the calls of the browser client
Tick ==
    /\ ticks > 0
    /\ \E d \in TickSteps :
         /\ d > 1 => \A p \in Procs : pc[p] = "idle"
         /\ d > 1 => client.at \in {"closed", "ready", "loggedOut"}
         /\ d > 1 => \A c \in CallIds : /\ calls[c].at \in {"request", "done"}
                                          /\ calls[c].inbox = NoResp
         /\ clock' = clock + d
    /\ ticks' = ticks - 1
    /\ last' = NoResp
    /\ UNCHANGED <<store, cognito, uuidNext, pc, loc, issued, redeemed,
                   revoked, consumed, verified, left,
                   millis, shares, minted, replaced, client, inbox, calls, nreq,
                   faults>>

\* ------------------------------------------------------ POST /api/login
StartLogin(p) ==
    /\ \E username \in AllNames, password \in Passwords :
         Begin(p, "login",
               [NoInput EXCEPT !.username = username, !.password = password,
                               !.now = clock],
               "login_get")
    /\ UNCHANGED <<store, clock, ticks, cognito, uuidNext, issued, redeemed,
                   revoked, consumed, verified, left,
                   millis, shares, minted, replaced, faults>>

LoginGet(p) ==
    /\ pc[p] = "login_get"
    /\ LET l == loc[p]
           user == store[l.in.username]
       IN  IF user = NoUser
           THEN Reply(p, l, 401, "Invalid credentials", NoToken, NoToken)
           ELSE IF user.password = <<>>
           THEN Reply(p, l, 500, "Login failed", NoToken, NoToken)
           ELSE IF ~BcryptCompare(l.in.password, user.password)
           THEN Reply(p, l, 401, "Invalid credentials", NoToken, NoToken)
           ELSE Goto(p, [l EXCEPT !.user = user,
                                  !.token = SignAccess(user, clock),
                                  !.refreshToken = SignRefresh(user, clock)],
                     "login_add")
    /\ UNCHANGED <<store, clock, ticks, cognito, uuidNext, issued, redeemed,
                   revoked, consumed, verified, left,
                   millis, shares, minted, replaced, faults>>

LoginAdd(p) ==
    /\ pc[p] = "login_add"
    /\ LET l == loc[p]
       IN  /\ store' = AddRefreshToken(l.in.username, l.refreshToken)
           /\ Reply(p, l, Ok, "Login successful", l.token, l.refreshToken)
           /\ Issue({l.token, l.refreshToken})
    /\ UNCHANGED <<clock, ticks, cognito, uuidNext, redeemed, consumed, verified, left,
                   millis, shares, minted, replaced,
                   faults>>

\* ---------------------------------------------------- POST /api/refresh
RefreshArrives(p, tok, from) ==
    LET in == [NoInput EXCEPT !.tok = tok, !.username = tok.username,
                              !.now = clock, !.from = from,
                              !.wasRedeemed = tok \in redeemed,
                              !.wasRevoked = tok \in revoked]
    IN  IF tok = NoToken
        THEN ReplyAtOnce(p, "refresh", in, 400, "Refresh token is required")
        ELSE IF JwtVerify(tok, clock) # "ok"
        THEN ReplyAtOnce(p, "refresh", in, 403, "Invalid or expired refresh token")
        ELSE IF tok.type # "refresh"
        THEN ReplyAtOnce(p, "refresh", in, 403, "Invalid token type")
        ELSE Begin(p, "refresh", in, "refresh_get")

StartRefresh(p) ==
    /\ \E tok \in Bearer : RefreshArrives(p, tok, "any")
    /\ UNCHANGED <<store, clock, ticks, cognito, uuidNext, issued, redeemed,
                   revoked, consumed, verified, left,
                   millis, shares, minted, replaced, faults>>

RefreshGet(p) ==
    /\ pc[p] = "refresh_get"
    /\ LET l == loc[p]
           user == store[l.in.username]
       IN  IF user = NoUser
           THEN Reply(p, [l EXCEPT !.obs.found = "no"], 403,
                      "Invalid refresh token", NoToken, NoToken)
           ELSE Goto(p, [l EXCEPT !.user = user, !.obs.found = "yes"],
                     "refresh_has")
    /\ UNCHANGED <<store, clock, ticks, cognito, uuidNext, issued, redeemed,
                   revoked, consumed, verified, left,
                   millis, shares, minted, replaced, faults>>

RefreshHasRevokesOnReuse(p) ==
    /\ pc[p] = "refresh_has"
    /\ LET l == loc[p]
           stored == store[l.in.username]
           member == stored # NoUser /\ Includes(stored.refreshTokens, l.in.tok)
           seen == [l EXCEPT !.obs.member = IF member THEN "yes" ELSE "no"]
       IN  IF ~HasRefreshToken(stored, l.in.tok)
           THEN /\ Reply(p, seen, 403, "Invalid refresh token", NoToken, NoToken)
                /\ store' = IF stored = NoUser THEN store
                            ELSE [store EXCEPT ![l.in.username].refreshTokens = <<>>]
           ELSE /\ Goto(p, [seen EXCEPT !.token = SignAccess(l.user, clock),
                                        !.refreshToken = SignRefresh(l.user, clock)],
                        "refresh_rm_get")
                /\ store' = store
    /\ UNCHANGED <<clock, ticks, cognito, uuidNext, issued, redeemed,
                   revoked, consumed, verified, left,
                   millis, shares, minted, replaced, faults>>

RefreshHas(p) ==
    /\ pc[p] = "refresh_has"
    /\ LET l == loc[p]
           stored == store[l.in.username]
           member == stored # NoUser /\ Includes(stored.refreshTokens, l.in.tok)
           seen == [l EXCEPT !.obs.member = IF member THEN "yes" ELSE "no"]
       IN  IF ~HasRefreshToken(stored, l.in.tok)
           THEN Reply(p, seen, 403, "Invalid refresh token", NoToken, NoToken)
           ELSE Goto(p, [seen EXCEPT !.token = SignAccess(l.user, clock),
                                     !.refreshToken = SignRefresh(l.user, clock)],
                     "refresh_rm_get")
    /\ UNCHANGED <<store, clock, ticks, cognito, uuidNext, issued, redeemed,
                   revoked, consumed, verified, left,
                   millis, shares, minted, replaced, faults>>

\* removeRefreshToken, its getUserByUsername
RefreshRemoveGet(p) ==
    /\ pc[p] = "refresh_rm_get"
    /\ LET l == loc[p]
           user == store[l.in.username]
       IN  IF user = NoUser
           THEN Goto(p, l, "refresh_add")
           ELSE IF Len(Filter(user.refreshTokens, l.in.tok)) = Len(user.refreshTokens)
           THEN Goto(p, l, "refresh_add")
           ELSE Goto(p, [l EXCEPT !.updatedTokens =
                                     Filter(user.refreshTokens, l.in.tok)],
                     "refresh_rm_set")
    /\ UNCHANGED <<store, clock, ticks, cognito, uuidNext, issued, redeemed,
                   revoked, consumed, verified, left,
                   millis, shares, minted, replaced, faults>>

\* removeRefreshToken, its UpdateCommand
RefreshRemoveSet(p) ==
    /\ pc[p] = "refresh_rm_set"
    /\ store' = SetRefreshTokens(loc[p].in.username, loc[p].updatedTokens)
    /\ left' = left \cup Dropped(loc[p].in.username, loc[p].updatedTokens)
    /\ Goto(p, [loc[p] EXCEPT !.obs.wrote = TRUE], "refresh_add")
    /\ UNCHANGED <<clock, ticks, cognito, uuidNext, issued, redeemed, revoked,
                   consumed, verified, millis, shares, minted, replaced, faults>>

RefreshAdd(p) ==
    /\ pc[p] = "refresh_add"
    /\ LET l == loc[p]
       IN  /\ store' = AddRefreshToken(l.in.username, l.refreshToken)
           /\ Reply(p, [l EXCEPT !.obs.again = l.in.tok \in redeemed], Ok,
                    "Token refreshed successfully", l.token, l.refreshToken)
           /\ Issue({l.token, l.refreshToken})
           /\ redeemed' = redeemed \cup {l.in.tok}
    /\ UNCHANGED <<clock, ticks, cognito, uuidNext, consumed, verified, left,
                   millis, shares, minted, replaced, faults>>

\* ------------------------------------------------------ authenticateToken
NoPrincipal == [id |-> "", username |-> ""]

AuthenticateSurfacesCognito(token, now) ==
    IF token = NoToken
    THEN [status |-> 401, message |-> "Access token required", user |-> NoPrincipal]
    ELSE IF cognito # "absent" /\ CognitoVerifyToken(token) = "ok"
    THEN [status |-> Ok, message |-> "", user |->
            [id |-> token.id, username |-> token.username]]
    ELSE IF cognito # "absent" /\ CognitoVerifyToken(token) # "NotApplicable"
    THEN [status |-> 403, message |-> "Invalid or expired token", user |-> NoPrincipal]
    ELSE IF JwtVerify(token, now) = "TokenExpiredError"
    THEN [status |-> 401, message |-> "Token expired", user |-> NoPrincipal]
    ELSE IF JwtVerify(token, now) # "ok"
    THEN [status |-> 403, message |-> "Invalid or expired token", user |-> NoPrincipal]
    ELSE [status |-> Ok, message |-> "", user |->
            [id |-> token.id, username |-> token.username]]

AuthenticateChecksSession(token, now) ==
    IF token # NoToken /\ token.username \in AllNames
       /\ ItemOrBlank(token.username).refreshTokens = <<>>
    THEN [status |-> 403, message |-> "Invalid or expired token", user |-> NoPrincipal]
    ELSE IF token = NoToken
    THEN [status |-> 401, message |-> "Access token required", user |-> NoPrincipal]
    ELSE IF cognito # "absent" /\ CognitoVerifyToken(token) = "ok"
    THEN [status |-> Ok, message |-> "", user |->
            [id |-> token.id, username |-> token.username]]
    ELSE IF JwtVerify(token, now) = "TokenExpiredError"
    THEN [status |-> 401, message |-> "Token expired", user |-> NoPrincipal]
    ELSE IF JwtVerify(token, now) # "ok"
    THEN [status |-> 403, message |-> "Invalid or expired token", user |-> NoPrincipal]
    ELSE [status |-> Ok, message |-> "", user |->
            [id |-> token.id, username |-> token.username]]

AuthenticateToken(token, now) ==
    IF token = NoToken
    THEN [status |-> 401, message |-> "Access token required", user |-> NoPrincipal]
    ELSE IF cognito # "absent" /\ CognitoVerifyToken(token) = "ok"
    THEN [status |-> Ok, message |-> "", user |->
            [id |-> token.id, username |-> token.username]]
    ELSE IF JwtVerify(token, now) = "TokenExpiredError"
    THEN [status |-> 401, message |-> "Token expired", user |-> NoPrincipal]
    ELSE IF JwtVerify(token, now) # "ok"
    THEN [status |-> 403, message |-> "Invalid or expired token", user |-> NoPrincipal]
    ELSE [status |-> Ok, message |-> "", user |->
            [id |-> token.id, username |-> token.username]]

\* a protected route: authenticateToken, then the handler
ProtectedArrives(p, op, next, tok, from) ==
    LET auth == AuthenticateToken(tok, clock)
        in == [NoInput EXCEPT !.tok = tok, !.username = auth.user.username,
                              !.now = clock, !.from = from]
    IN  IF auth.status # Ok
        THEN ReplyAtOnce(p, op, in, auth.status, auth.message)
        ELSE Begin(p, op, in, next)

StartProtected(p, op, next) ==
    \E tok \in Bearer : ProtectedArrives(p, op, next, tok, "any")

\* ----------------------------------------------------- POST /api/logout
StartLogout(p) ==
    /\ StartProtected(p, "logout", "logout_clear")
    /\ UNCHANGED <<store, clock, ticks, cognito, uuidNext, issued, redeemed,
                   revoked, consumed, verified, left,
                   millis, shares, minted, replaced, faults>>

\* clearRefreshTokens: SET refreshTokens = []
LogoutClear(p) ==
    /\ pc[p] = "logout_clear"
    /\ LET l == loc[p]
       IN  /\ store' = SetRefreshTokens(l.in.username, <<>>)
           /\ Reply(p, l, Ok, "Logged out successfully", NoToken, NoToken)
           /\ revoked' = revoked \cup
                {t \in issued : t.type = "refresh" /\ t.username = l.in.username}
           /\ left' = left \cup Dropped(l.in.username, <<>>)
    /\ UNCHANGED <<clock, ticks, cognito, uuidNext, issued, redeemed, consumed,
                   verified, millis, shares, minted, replaced, faults>>

\* ------------------------------------------------------ GET /api/profile
StartProfile(p) ==
    /\ StartProtected(p, "profile", "profile_get")
    /\ UNCHANGED <<store, clock, ticks, cognito, uuidNext, issued, redeemed,
                   revoked, consumed, verified, left,
                   millis, shares, minted, replaced, faults>>

ProfileGet(p) ==
    /\ pc[p] = "profile_get"
    /\ LET l == loc[p]
       IN  IF store[l.in.username] = NoUser
           THEN Reply(p, l, 404, "User not found", NoToken, NoToken)
           ELSE Reply(p, l, Ok, "", NoToken, NoToken)
    /\ UNCHANGED <<store, clock, ticks, cognito, uuidNext, issued, redeemed,
                   revoked, consumed, verified, left,
                   millis, shares, minted, replaced, faults>>

\* --------------------------------------------------- POST /api/register
Unchanged == UNCHANGED <<clock, ticks, cognito, redeemed, consumed, verified, left,
                   millis, shares, minted, replaced, faults>>

RegisteredMessage(email, emailSent) ==
    IF email = "" THEN "User registered successfully"
    ELSE IF emailSent
    THEN "User registered successfully. Please check your email to verify your account."
    ELSE "User registered successfully, but verification email could not be sent."

StartRegister(p) ==
    /\ \E username \in AllNames, password \in Passwords, email \in Emails :
         Begin(p, "register",
               [NoInput EXCEPT !.username = username, !.password = password,
                               !.email = email, !.now = clock],
               "register_get")
    /\ UNCHANGED <<store, uuidNext, issued, revoked>>
    /\ Unchanged

RegisterGet(p) ==
    /\ pc[p] = "register_get"
    /\ LET l == loc[p]
       IN  IF store[l.in.username] # NoUser
           THEN /\ Reply(p, [l EXCEPT !.obs.found = "yes"], 409,
                         "Username already exists", NoToken, NoToken)
                /\ uuidNext' = uuidNext
           ELSE /\ Goto(p, [l EXCEPT !.uuid = uuidNext], "register_create")
                /\ uuidNext' = uuidNext + 1
    /\ UNCHANGED <<store, issued, revoked>>
    /\ Unchanged

CreateUserOverwrites(username) == FALSE

\* createUser: PutCommand with ConditionExpression attribute_not_exists
ConditionalCheckFailed(username) == store[username] # NoUser

\* createUser, then sendVerificationEmail
RegisterCreate(p) ==
    /\ pc[p] = "register_create"
    /\ LET l == loc[p]
           userData == [username |-> l.in.username, id |-> l.in.username,
                        password |-> BcryptHash(l.in.password),
                        email |-> l.in.email, emailVerified |-> FALSE,
                        emailVerificationToken |-> l.uuid,
                        refreshTokens |-> <<>>]
           seen == [l EXCEPT !.obs.found =
                        IF store[l.in.username] # NoUser THEN "yes" ELSE "no"]
       IN  IF ConditionalCheckFailed(l.in.username)
           THEN /\ Reply(p, [seen EXCEPT !.obs.again = TRUE], 409,
                         "Username already exists", NoToken, NoToken)
                /\ store' = store
           ELSE /\ store' = [store EXCEPT ![l.in.username] = userData]
                /\ \E emailSent \in (IF l.in.email = "" THEN {FALSE} ELSE BOOLEAN) :
                     IF l.in.email = "" \/ emailSent
                     THEN Goto(p, [seen EXCEPT !.user = userData,
                                            !.token = SignAccess(userData, clock),
                                            !.refreshToken = SignRefresh(userData, clock),
                                            !.obs.wrote = TRUE],
                               "register_add")
                     ELSE Reply(p, [seen EXCEPT !.obs.wrote = TRUE], 201,
                                RegisteredMessage(l.in.email, emailSent),
                                NoToken, NoToken)
    /\ UNCHANGED <<uuidNext, issued, revoked>>
    /\ Unchanged

RegisterAdd(p) ==
    /\ pc[p] = "register_add"
    /\ LET l == loc[p]
       IN  /\ store' = AddRefreshToken(l.in.username, l.refreshToken)
           /\ Reply(p, l, 201, RegisteredMessage(l.in.email, TRUE), l.token,
                    l.refreshToken)
           /\ Issue({l.token, l.refreshToken})
    /\ UNCHANGED uuidNext
    /\ Unchanged

\* ------------------------------------------------ GET /api/verify-email
UpdateUserKeepsToken(username, emailVerified, emailVerificationToken) ==
    [store EXCEPT ![username] =
        [ItemOrBlank(username) EXCEPT !.emailVerified = emailVerified]]

\* updateUser: SET of the named attributes only
UpdateUser(username, emailVerified, emailVerificationToken) ==
    [store EXCEPT ![username] =
        [ItemOrBlank(username) EXCEPT
            !.emailVerified = emailVerified,
            !.emailVerificationToken = emailVerificationToken]]

\* a token some response mailed out, or one that uuidv4 never returned
VerificationInputs == {-1} \cup 1..(uuidNext - 1)

StartVerify(p) ==
    /\ \E vtok \in VerificationInputs :
         Begin(p, "verify",
               [NoInput EXCEPT !.vtok = vtok, !.now = clock,
                               !.wasConsumed = vtok \in consumed,
                               !.wasReplaced = vtok \in replaced],
               "verify_scan")
    /\ UNCHANGED <<store, uuidNext, issued, revoked>>
    /\ Unchanged

VerifyScan(p) ==
    /\ pc[p] = "verify_scan"
    /\ LET l == loc[p]
           userToVerify == GetUserByVerificationToken(l.in.vtok)
           seen == [l EXCEPT !.obs.held =
                        \E n \in AllNames :
                            /\ store[n] # NoUser
                            /\ store[n].emailVerificationToken = l.in.vtok]
       IN  IF userToVerify = NoUser
           THEN Reply(p, seen, 404, "Invalid or expired verification token",
                      NoToken, NoToken)
           ELSE Goto(p, [seen EXCEPT !.user = userToVerify, !.obs.found = "yes"],
                     "verify_update")
    /\ UNCHANGED <<store, uuidNext, issued, revoked>>
    /\ Unchanged

VerifyUpdate(p) ==
    /\ pc[p] = "verify_update"
    /\ LET l == loc[p]
       IN  /\ store' = UpdateUser(l.user.username, TRUE, 0)
           /\ consumed' = consumed \cup
                ({l.in.vtok, ItemOrBlank(l.user.username).emailVerificationToken} \ {0})
           /\ Goto(p, [l EXCEPT !.token = SignAccess(l.user, clock),
                                !.refreshToken = SignRefresh(l.user, clock),
                                !.obs.wrote = TRUE],
                   "verify_add")
    /\ UNCHANGED <<clock, ticks, cognito, uuidNext, issued, redeemed, revoked,
                   replaced, verified, left, millis, shares, minted, faults>>

VerifyAdd(p) ==
    /\ pc[p] = "verify_add"
    /\ LET l == loc[p]
       IN  /\ store' = AddRefreshToken(l.user.username, l.refreshToken)
           /\ Reply(p, [l EXCEPT !.obs.again = l.in.vtok \in verified], Ok,
                    "Email verified successfully! You can now use all features.",
                    l.token, l.refreshToken)
           /\ Issue({l.token, l.refreshToken})
           /\ verified' = verified \cup {l.in.vtok}
    /\ UNCHANGED <<clock, ticks, cognito, uuidNext, redeemed, consumed, replaced,
                   left, millis, shares, minted, faults>>

\* ----------------------------------------- POST /api/resend-verification
StartResend(p) ==
    /\ \E username \in AllNames :
         Begin(p, "resend", [NoInput EXCEPT !.username = username, !.now = clock],
               "resend_get")
    /\ UNCHANGED <<store, uuidNext, issued, revoked>>
    /\ Unchanged

ResendGet(p) ==
    /\ pc[p] = "resend_get"
    /\ LET l == loc[p]
           user == store[l.in.username]
       IN  IF user = NoUser
           THEN /\ Reply(p, l, 404, "User not found", NoToken, NoToken)
                /\ uuidNext' = uuidNext
           ELSE IF user.emailVerified
           THEN /\ Reply(p, l, 400, "Email is already verified", NoToken, NoToken)
                /\ uuidNext' = uuidNext
           ELSE IF user.email = ""
           THEN /\ Reply(p, l, 400, "No email address associated with this account",
                         NoToken, NoToken)
                /\ uuidNext' = uuidNext
           ELSE /\ Goto(p, [l EXCEPT !.user = user, !.uuid = uuidNext],
                        "resend_update")
                /\ uuidNext' = uuidNext + 1
    /\ UNCHANGED <<store, issued, revoked>>
    /\ Unchanged

\* updateUser, then sendVerificationEmail
ResendUpdate(p) ==
    /\ pc[p] = "resend_update"
    /\ LET l == loc[p]
           stored == ItemOrBlank(l.in.username)
       IN  /\ store' = UpdateUser(l.in.username, stored.emailVerified, l.uuid)
           /\ replaced' = replaced \cup ({stored.emailVerificationToken} \ {0})
           /\ \E emailSent \in BOOLEAN :
                Reply(p, l, Ok,
                      IF emailSent THEN "Verification email sent successfully"
                      ELSE "Failed to send verification email",
                      NoToken, NoToken)
    /\ UNCHANGED <<clock, ticks, cognito, uuidNext, issued, redeemed, revoked,
                   consumed, verified, left,
                   millis, shares, minted, faults>>

\* ----------------------------------------------------- a store call throws
\* the handler's catch block answers; hasRefreshToken catches its own error
\* and reports the token absent
CatchStatus(op) == IF op = "refresh" THEN 403 ELSE 500
CatchMessage(op, at) ==
    IF op = "register" THEN "Registration failed"
    ELSE IF op = "login" THEN "Login failed"
    ELSE IF op = "verify" THEN "Email verification failed"
    ELSE IF op = "resend" THEN "Failed to resend verification email"
    ELSE IF op = "refresh" THEN
        (IF at = "refresh_has" THEN "Invalid refresh token"
         ELSE "Invalid or expired refresh token")
    ELSE IF op = "logout" THEN "Logout failed"
    ELSE "Error fetching profile"

StoreThrows(p) ==
    /\ pc[p] # "idle"
    /\ faults > 0
    /\ faults' = faults - 1
    /\ Reply(p, [loc[p] EXCEPT !.obs.threw = TRUE], CatchStatus(loc[p].op),
             CatchMessage(loc[p].op, pc[p]), NoToken, NoToken)
    /\ UNCHANGED <<store, clock, ticks, cognito, uuidNext, issued, redeemed,
                   revoked, consumed, verified, left,
                   millis, shares, minted, replaced>>

\* ------------------------------------------------------- POST /api/share
StartShare(p) ==
    /\ \E tok \in Bearer, imageId \in ImageIds, filterName \in FilterNames,
          hours \in ExpiresInHours :
         LET auth == AuthenticateToken(tok, clock)
             in == [NoInput EXCEPT !.username = auth.user.username,
                                   !.now = clock, !.nowMs = DateNow,
                                   !.imageId = imageId, !.filterName = filterName,
                                   !.hours = hours]
         IN  IF auth.status # Ok
             THEN ReplyAtOnce(p, "share", in, auth.status, auth.message)
             ELSE IF imageId = ""
             THEN ReplyAtOnce(p, "share", in, 400,
                              "Image ID and filter name are required")
             ELSE Begin(p, "share", in, "share_readdir")
    /\ UNCHANGED <<store, clock, ticks, cognito, uuidNext, issued, redeemed,
                   revoked, consumed, replaced, verified, left, millis, shares,
                   minted, faults>>

\* fs.readdir, then uuidv4 and sharedImages.set
ShareCreate(p) ==
    /\ pc[p] = "share_readdir"
    /\ LET l == loc[p]
           filename == FindProcessed(l.in.imageId, l.in.filterName)
           entry == [token |-> uuidNext, filename |-> filename,
                     expiresAt |-> DateNow + l.in.hours * HourMs,
                     hours |-> l.in.hours]
       IN  IF filename = NoFile
           THEN /\ Reply(p, l, 404, "Processed image not found", NoToken, NoToken)
                /\ UNCHANGED <<uuidNext, shares, minted>>
           ELSE /\ shares' = shares \cup {entry}
                /\ minted' = minted \cup {entry}
                /\ uuidNext' = uuidNext + 1
                /\ Reply(p, [l EXCEPT !.obs.share = entry.token,
                                      !.obs.expiresAt = entry.expiresAt],
                         Ok, "Shareable link created successfully", NoToken, NoToken)
    /\ UNCHANGED <<store, clock, ticks, cognito, issued, redeemed, revoked,
                   consumed, replaced, verified, left, millis, faults>>

\* ------------------------------------------------ GET /api/shared/:token
\* a token some response returned, or one that uuidv4 never returned
ShareInputs == {-1} \cup {e.token : e \in minted}

StartShared(p) ==
    /\ \E token \in ShareInputs :
         LET sharedImage == SharedImagesGet(token)
             in == [NoInput EXCEPT !.share = token, !.now = clock,
                                   !.nowMs = DateNow,
                                   !.wasStored = sharedImage # NoShare]
         IN  IF sharedImage = NoShare
             THEN /\ ReplyAtOnce(p, "shared", in, 404,
                                 "Shared link not found or expired")
                  /\ shares' = shares
             ELSE IF ShareExpired(sharedImage, DateNow)
             THEN /\ shares' = shares \ {sharedImage}
                  /\ ReplyAtOnce(p, "shared", in, 410, "Shared link has expired")
             ELSE /\ Begin(p, "shared", in, "shared_exists")
                  /\ shares' = shares
    /\ UNCHANGED <<store, clock, ticks, cognito, uuidNext, issued, redeemed,
                   revoked, consumed, replaced, verified, left, millis, minted,
                   faults>>

\* fs.pathExists, then res.sendFile; the handler holds the entry it read,
\* whatever has happened to the Map since
SharedSend(p) ==
    /\ pc[p] = "shared_exists"
    /\ LET l == loc[p]
           sharedImage == CHOOSE e \in minted : e.token = l.in.share
       IN  IF sharedImage.filename \notin Processed
           THEN Reply(p, l, 404, "Image file not found", NoToken, NoToken)
           ELSE Reply(p, [l EXCEPT !.obs.file = sharedImage.filename], Ok, "",
                      NoToken, NoToken)
    /\ UNCHANGED <<store, clock, ticks, cognito, uuidNext, issued, redeemed,
                   revoked, consumed, replaced, verified, left, millis, shares,
                   minted, faults>>

\* a millisecond passes
TickMs ==
    /\ millis < MaxMillis
    /\ millis' = millis + 1
    /\ last' = NoResp
    /\ UNCHANGED <<store, clock, ticks, cognito, uuidNext, pc, loc, issued,
                   redeemed, revoked, consumed, replaced, verified, left, shares,
                   minted, client, inbox, calls, nreq, faults>>

ShareStep(p) == StartShare(p) \/ ShareCreate(p)

SharedStep(p) == StartShared(p) \/ SharedSend(p)

\* ------------------------------------------ the browser client, api-script.js
server ==
    <<store, clock, ticks, cognito, uuidNext, pc, loc, issued, redeemed, revoked,
      consumed, replaced, verified, left, millis, shares, minted, nreq, faults>>

\* a fetch of the client is on its way, or its response is not yet handled
ClientInFlight ==
    \/ inbox # NoResp
    \/ \E p \in Procs : pc[p] # "idle" /\ loc[p].in.from = "client"

\* the client's code runs on from a resolved await to its next await
ClientStep(c) ==
    /\ client' = c
    /\ inbox' = NoResp
    /\ last' = NoResp
    /\ calls' = calls
    /\ UNCHANGED server

\* errorData.message.includes('expired')
IncludesExpired(message) ==
    message \in {"Token expired", "Invalid or expired token",
                 "Invalid or expired refresh token"}

\* the constructor reads the session that localStorage holds; the access
\* token it finds there may be one that the server's secret does not verify
ClientOpens ==
    /\ client.at = "closed"
    /\ \E a \in issued \cup {Tamper(t) : t \in issued}, r \in issued :
         /\ a.type = "" /\ r.type = "refresh"
         /\ a.username = r.username /\ a.iat = r.iat
         /\ ClientStep([NoClient EXCEPT !.at = "ready", !.authToken = a,
                                        !.refreshToken = r,
                                        !.username = a.username])

\* makeAuthenticatedRequest is called
ClientCall ==
    /\ client.at = "ready"
    /\ ClientStep([client EXCEPT
           !.at = "request", !.refreshes = 0, !.fetches = 0, !.first = 0,
           !.returned = 0, !.sent = NoToken, !.held = client.authToken,
           !.pre = /\ JwtVerify(client.authToken, clock) = "TokenExpiredError"
                   /\ JwtVerify(client.refreshToken, clock) = "ok"
                   /\ HasRefreshToken(store[client.username], client.refreshToken)])

ClientRequestFetch(p) ==
    /\ client.at = "request"
    /\ ~ClientInFlight
    /\ ProtectedArrives(p, "profile", "profile_get", client.authToken, "client")
    /\ UNCHANGED <<store, clock, ticks, cognito, uuidNext, issued, redeemed,
                   revoked, consumed, replaced, verified, left, millis, shares,
                   minted, faults>>

ClientRequestDone ==
    /\ client.at = "request"
    /\ inbox # NoResp
    /\ LET c == [client EXCEPT !.fetches = @ + 1, !.first = inbox.status,
                               !.sent = inbox.in.tok]
       IN  IF /\ inbox.status \in {401, 403}
              /\ client.refreshToken # NoToken
              /\ (inbox.status = 401 \/ IncludesExpired(inbox.message))
           THEN ClientStep([c EXCEPT !.at = "refresh"])
           ELSE ClientStep([c EXCEPT !.at = "ready", !.returned = inbox.status])

\* refreshAuthToken
ClientRefreshFetch(p) ==
    /\ client.at = "refresh"
    /\ ~ClientInFlight
    /\ RefreshArrives(p, client.refreshToken, "client")
    /\ UNCHANGED <<store, clock, ticks, cognito, uuidNext, issued, redeemed,
                   revoked, consumed, replaced, verified, left, millis, shares,
                   minted, faults>>

SaveTokensKeepsRefresh(c, data) == [c EXCEPT !.authToken = data.token]

\* this.authToken = data.token; this.refreshToken = data.refreshToken
SaveTokens(c, data) ==
    [c EXCEPT !.authToken = data.token, !.refreshToken = data.refreshToken]

\* on failure handleLogout is called without await, and the caller gets the
\* first response back
ClientRefreshDone ==
    /\ client.at = "refresh"
    /\ inbox # NoResp
    /\ LET c == [client EXCEPT
                    !.refreshes = @ + 1,
                    !.pre = @ /\ JwtVerify(inbox.in.tok, inbox.in.now) = "ok"]
       IN  IF inbox.status = Ok
           THEN ClientStep([SaveTokens(c, inbox) EXCEPT !.at = "retry"])
           ELSE ClientStep([c EXCEPT !.at = "logout_fetch",
                                     !.returned = client.first])

ClientRetryFetch(p) ==
    /\ client.at = "retry"
    /\ ~ClientInFlight
    /\ ProtectedArrives(p, "profile", "profile_get", client.authToken, "client")
    /\ UNCHANGED <<store, clock, ticks, cognito, uuidNext, issued, redeemed,
                   revoked, consumed, replaced, verified, left, millis, shares,
                   minted, faults>>

ClientRetryDone ==
    /\ client.at = "retry"
    /\ inbox # NoResp
    /\ ClientStep([client EXCEPT !.fetches = @ + 1, !.sent = inbox.in.tok,
                                 !.returned = inbox.status, !.at = "ready"])

\* handleLogout
ClientLogout ==
    /\ client.at = "ready"
    /\ ClientStep([client EXCEPT !.at = "logout_fetch"])

ClientLogoutFetch(p) ==
    /\ client.at = "logout_fetch"
    /\ client.authToken # NoToken
    /\ ~ClientInFlight
    /\ ProtectedArrives(p, "logout", "logout_clear", client.authToken, "client")
    /\ UNCHANGED <<store, clock, ticks, cognito, uuidNext, issued, redeemed,
                   revoked, consumed, replaced, verified, left, millis, shares,
                   minted, faults>>

\* whatever the response, the client forgets its tokens
ClientLogoutDone ==
    /\ client.at = "logout_fetch"
    /\ inbox # NoResp \/ client.authToken = NoToken
    /\ ClientStep([client EXCEPT !.at = "loggedOut", !.authToken = NoToken,
                                 !.refreshToken = NoToken])

ClientCode ==
    \/ ClientOpens \/ ClientCall \/ ClientRequestDone \/ ClientRefreshDone
    \/ ClientRetryDone \/ ClientLogout \/ ClientLogoutDone

ClientFetch(p) ==
    \/ ClientRequestFetch(p) \/ ClientRefreshFetch(p) \/ ClientRetryFetch(p)
    \/ ClientLogoutFetch(p)

\* the handlers at work on a request that has arrived
Serve(p) ==
    \/ ProfileGet(p) \/ LogoutClear(p)
    \/ RefreshGet(p) \/ RefreshHas(p) \/ RefreshRemoveGet(p)
    \/ RefreshRemoveSet(p) \/ RefreshAdd(p)

\* --------------------------- two calls of makeAuthenticatedRequest at once
\* each call awaits its own fetch; this.authToken and this.refreshToken are
\* the client's, shared by the calls
CallInFlight(c) ==
    \/ calls[c].inbox # NoResp
    \/ \E p \in Procs : pc[p] # "idle" /\ loc[p].in.from = c

\* a call's code runs on from its resolved await to its next await
CallStep(c, call, cl) ==
    /\ calls' = [calls EXCEPT ![c] = [call EXCEPT !.inbox = NoResp]]
    /\ client' = cl
    /\ inbox' = inbox
    /\ last' = NoResp
    /\ UNCHANGED server

\* headers['Authorization'] = `Bearer ${this.authToken}`; await fetch(url)
CallFetch(c, p) ==
    /\ client.at = "ready"
    /\ calls[c].at = "request"
    /\ ~CallInFlight(c)
    /\ ProtectedArrives(p, "profile", "profile_get", client.authToken, c)
    /\ UNCHANGED <<store, clock, ticks, cognito, uuidNext, issued, redeemed,
                   revoked, consumed, replaced, verified, left, millis, shares,
                   minted, faults>>

\* the response is there; on 401, or on a message that includes 'expired',
\* refreshAuthToken is entered and puts this.refreshToken in its request
CallDone(c) ==
    /\ calls[c].at = "request"
    /\ calls[c].inbox # NoResp
    /\ LET r == calls[c].inbox
           call == [calls[c] EXCEPT !.first = r.status, !.tok = r.in.tok]
       IN  IF /\ r.status \in {401, 403}
              /\ client.refreshToken # NoToken
              /\ (r.status = 401 \/ IncludesExpired(r.message))
           THEN CallStep(c, [call EXCEPT
                                !.at = "refresh",
                                !.body = client.refreshToken,
                                !.rtok = client.refreshToken,
                                !.valid =
                                    /\ JwtVerify(client.refreshToken, clock) = "ok"
                                    /\ HasRefreshToken(store[client.username],
                                                       client.refreshToken)],
                         client)
           ELSE CallStep(c, [call EXCEPT !.at = "done"], client)

CallRefreshFetch(c, p) ==
    /\ calls[c].at = "refresh"
    /\ ~CallInFlight(c)
    /\ RefreshArrives(p, calls[c].body, c)
    /\ UNCHANGED <<store, clock, ticks, cognito, uuidNext, issued, redeemed,
                   revoked, consumed, replaced, verified, left, millis, shares,
                   minted, faults>>

\* data.success: the pair is saved and the request is sent again with the new
\* access token; otherwise handleLogout is entered, which sends
\* this.authToken to /api/logout when there is one
CallRefreshDone(c) ==
    /\ calls[c].at = "refresh"
    /\ calls[c].inbox # NoResp
    /\ LET r == calls[c].inbox
       IN  IF r.status = Ok
           THEN CallStep(c, [calls[c] EXCEPT !.at = "retry", !.body = r.token],
                         SaveTokens(client, r))
           ELSE IF client.authToken # NoToken
           THEN CallStep(c, [calls[c] EXCEPT !.at = "logout_fetch",
                                             !.body = client.authToken],
                         client)
           ELSE CallStep(c, [calls[c] EXCEPT !.at = "done"],
                         [client EXCEPT !.at = "loggedOut",
                                        !.refreshToken = NoToken])

CallRetryFetch(c, p) ==
    /\ calls[c].at = "retry"
    /\ ~CallInFlight(c)
    /\ ProtectedArrives(p, "profile", "profile_get", calls[c].body, c)
    /\ UNCHANGED <<store, clock, ticks, cognito, uuidNext, issued, redeemed,
                   revoked, consumed, replaced, verified, left, millis, shares,
                   minted, faults>>

CallRetryDone(c) ==
    /\ calls[c].at = "retry"
    /\ calls[c].inbox # NoResp
    /\ CallStep(c, [calls[c] EXCEPT !.at = "done"], client)

CallLogoutFetch(c, p) ==
    /\ calls[c].at = "logout_fetch"
    /\ ~CallInFlight(c)
    /\ ProtectedArrives(p, "logout", "logout_clear", calls[c].body, c)
    /\ UNCHANGED <<store, clock, ticks, cognito, uuidNext, issued, redeemed,
                   revoked, consumed, replaced, verified, left, millis, shares,
                   minted, faults>>

\* whatever the response, handleLogout forgets the client's tokens
CallLogoutDone(c) ==
    /\ calls[c].at = "logout_fetch"
    /\ calls[c].inbox # NoResp
    /\ CallStep(c, [calls[c] EXCEPT !.at = "done"],
                [client EXCEPT !.at = "loggedOut", !.authToken = NoToken,
                               !.refreshToken = NoToken])

CallCode(c) ==
    \/ CallDone(c) \/ CallRefreshDone(c) \/ CallRetryDone(c) \/ CallLogoutDone(c)

CallFetches(c, p) ==
    \/ CallFetch(c, p) \/ CallRefreshFetch(c, p) \/ CallRetryFetch(c, p)
    \/ CallLogoutFetch(c, p)

LoginStep(p) == StartLogin(p) \/ LoginGet(p) \/ LoginAdd(p)

RefreshStep(p) ==
    \/ StartRefresh(p) \/ RefreshGet(p) \/ RefreshHas(p)
    \/ RefreshRemoveGet(p) \/ RefreshRemoveSet(p) \/ RefreshAdd(p)

LogoutStep(p) == StartLogout(p) \/ LogoutClear(p)

ProfileStep(p) == StartProfile(p) \/ ProfileGet(p)

RegisterStep(p) ==
    StartRegister(p) \/ RegisterGet(p) \/ RegisterCreate(p) \/ RegisterAdd(p)

VerifyStep(p) == StartVerify(p) \/ VerifyScan(p) \/ VerifyUpdate(p) \/ VerifyAdd(p)

ResendStep(p) == StartResend(p) \/ ResendGet(p) \/ ResendUpdate(p)

\* the session endpoints, under every configuration of the external verifier
Next ==
    \/ Tick
    \/ \E p \in Procs :
         \/ LoginStep(p) \/ RefreshStep(p) \/ LogoutStep(p) \/ ProfileStep(p)
         \/ StoreThrows(p)

Init == Start(CognitoModes, MaxRequests, MaxTicks, MaxFaults)

Spec == Init /\ [][Next]_vars

\* registration, login and the sessions of the registered users
InitLogin == Start({"absent"}, MaxRequests, MaxTicks, MaxFaults)

NextLogin ==
    \/ Tick
    \/ \E p \in Procs :
         \/ RegisterStep(p) \/ LoginStep(p) \/ RefreshStep(p) \/ LogoutStep(p)
         \/ StoreThrows(p)

SpecLogin == InitLogin /\ [][NextLogin]_vars

\* registration and email verification
InitAccounts == Start({"absent"}, MaxAccountRequests, 0, MaxFaults)

NextAccounts ==
    \E p \in Procs :
        \/ RegisterStep(p) \/ VerifyStep(p) \/ ResendStep(p) \/ StoreThrows(p)

SpecAccounts == InitAccounts /\ [][NextAccounts]_vars

\* three requests on the sessions of one user
InitRace == Start({"absent"}, MaxRaceRequests, 0, 0)

NextRace == \E p \in Procs : RefreshStep(p) \/ LogoutStep(p)

SpecRace == InitRace /\ [][NextRace]_vars

\* shared images, the clock in milliseconds
InitShare == Start({"absent"}, MaxShareRequests, MaxShareTicks, 0)

NextShare ==
    \/ Tick
    \/ TickMs
    \/ \E p \in Procs : ShareStep(p) \/ SharedStep(p)

SpecShare == InitShare /\ [][NextShare]_vars

\* one browser client and the server
InitClient == Start({"absent"}, MaxClientRequests, MaxClientTicks, 0)

NextClient ==
    \/ Tick
    \/ ClientCode
    \/ \E p \in Procs : ClientFetch(p) \/ Serve(p)

SpecClient == InitClient /\ [][NextClient]_vars

\* one browser client with two calls in progress, and the server
InitCalls == Start({"absent"}, MaxCallRequests, MaxCallTicks, 0)

NextCalls ==
    \/ Tick
    \/ ClientOpens
    \/ \E c \in CallIds : CallCode(c) \/ \E p \in Procs : CallFetches(c, p)
    \/ \E p \in Procs : Serve(p)

SpecCalls == InitCalls /\ [][NextCalls]_vars

\* every request that opens, keeps or confirms a session
InitSession == Start({"absent"}, MaxSessionRequests, MaxSessionTicks, 0)

NextSession ==
    \/ Tick
    \/ \E p \in Procs :
         \/ RegisterStep(p) \/ LoginStep(p) \/ RefreshStep(p)
         \/ VerifyStep(p) \/ ResendStep(p)

SpecSession == InitSession /\ [][NextSession]_vars

\* ================================================================= claims
\* what a token is, said without the codec: signed by this server's secret,
\* and before or past the expiry it carries
WellSigned(token) == token.iss = "local" /\ token.sig = "ok"
Expired(token, now) == WellSigned(token) /\ now >= token.exp
Current(token, now) == WellSigned(token) /\ now < token.exp

Refreshed == last.op = "refresh" /\ last.status = Ok
Protected == last.op \in {"logout", "profile"}
Rejected == last.op # "none" /\ last.status \in {401, 403}

\* C1: once a refresh has succeeded for a refresh token, every later refresh
\* request that presents the same token while no other request is running is
\* answered 403 and returns no tokens.
C1_RedeemedTokenRefused ==
    (last.op = "refresh" /\ last.solo /\ last.in.wasRedeemed)
        => (last.status = 403 /\ last.token = NoToken /\ last.refreshToken = NoToken)

\* C2: of two refresh requests that present the same token and run
\* concurrently, at most one returns a new token pair: a refresh that began
\* before its token was redeemed does not succeed once a concurrent request
\* has redeemed that token.
C2_OneConcurrentRefreshWins ==
    (Refreshed /\ ~last.solo /\ ~last.in.wasRedeemed) => ~last.obs.again

\* C3: a refresh request succeeds if and only if the presented token has a
\* valid signature, is unexpired, is of kind refresh, names an existing user
\* and was a member of that user's stored set when the handler looked it up
\* (and no store call threw).
RefreshConditions ==
    /\ Current(last.in.tok, last.in.now)
    /\ last.in.tok.type = "refresh"
    /\ last.obs.found = "yes"
    /\ last.obs.member = "yes"
    /\ ~last.obs.threw

C3_RefreshValidity ==
    last.op = "refresh" =>
        /\ last.status = Ok <=> RefreshConditions
        /\ last.status = Ok <=> last.refreshToken # NoToken
        /\ last.status = Ok <=> last.token # NoToken

\* a signature-valid, unexpired refresh token that is not in the set is refused
C3_Witness ==
    /\ last.op = "refresh"
    /\ last.status = 403
    /\ Current(last.in.tok, last.in.now)
    /\ last.in.tok.type = "refresh"
    /\ last.obs.member = "no"

\* C4: after a logout of a subject has completed, a refresh request that
\* presents a refresh token issued to that subject before the logout is
\* answered 403, and the subject's stored set is empty right after the logout.
C4_LogoutRevokes ==
    /\ (last.op = "refresh" /\ last.in.wasRevoked) => last.status = 403
    /\ (last.op = "logout" /\ last.status = Ok)
           => store[last.in.username].refreshTokens = <<>>

\* C5: an access token that was issued and has not reached its expiry is
\* accepted on a protected endpoint whatever the user's stored refresh tokens
\* are, also after a logout.
C5_AccessTokenStateless ==
    (/\ Protected
     /\ last.in.tok \in issued
     /\ last.in.tok.type = ""
     /\ last.in.now < last.in.tok.exp)
        => (~Rejected /\ last.in.username = last.in.tok.username)

\* an access token issued before a logout is accepted after it, the set empty
C5_Witness ==
    /\ last.op = "profile"
    /\ last.status = Ok
    /\ last.in.tok \in issued
    /\ last.in.tok.type = ""
    /\ store[last.in.tok.username].refreshTokens = <<>>
    /\ \E t \in revoked : t.username = last.in.tok.username

\* C6: for a user registered in the store, login with the registered
\* password succeeds (when no store call throws); the returned access token
\* verifies with the user's id and username, and the returned refresh token
\* is in the user's stored set when the response is sent.
RegisteredLogin ==
    /\ last.op = "login"
    /\ ~last.obs.threw
    /\ store[last.in.username] # NoUser
    /\ store[last.in.username].password = BcryptHash(last.in.password)

ExternallyVerified(token) ==
    cognito # "absent" /\ CognitoVerifyToken(token) = "ok"

C7_StatusMapping ==
    /\ (Protected /\ last.in.tok = NoToken) => last.status = 401
    /\ (Protected /\ last.in.tok # NoToken /\ ~ExternallyVerified(last.in.tok)
          /\ Expired(last.in.tok, last.in.now))
           => last.status = 401
    /\ (Protected /\ last.in.tok # NoToken /\ ~ExternallyVerified(last.in.tok)
          /\ ~WellSigned(last.in.tok))
           => last.status = 403
    /\ (last.op = "login" /\ ~last.obs.threw
          /\ (\/ store[last.in.username] = NoUser
              \/ store[last.in.username].password # BcryptHash(last.in.password)))
           => last.status = 401
    /\ (last.op = "refresh" /\ last.in.tok # NoToken
          /\ (\/ ~WellSigned(last.in.tok)
              \/ (/\ Current(last.in.tok, last.in.now)
                  /\ last.in.tok.type # "refresh")
              \/ last.obs.member = "no"))
           => last.status = 403

\* C8: a refresh request that presents an expired refresh token is
\* answered 401.
ExpiredRefresh ==
    /\ last.op = "refresh"
    /\ last.in.tok.type = "refresh"
    /\ Expired(last.in.tok, last.in.now)

C8_ExpiredRefreshIs401 == ExpiredRefresh => last.status = 401

\* C8, amended: a refresh request that presents an expired refresh token is
\* answered 403 with the body of an invalid refresh token.
C8_ExpiredRefreshIs403 ==
    ExpiredRefresh =>
        /\ last.status = 403
        /\ last.message = "Invalid or expired refresh token"
        /\ last.refreshToken = NoToken

C8_Witness == ExpiredRefresh /\ last.in.tok \in issued

\* C9: with the external verifier configured, a token it verifies yields the
\* external principal; for every other token the outcome is the outcome of
\* the local codec: accepted, 401 "Token expired" or 403.
C9_FallThrough ==
    (Protected /\ cognito # "absent" /\ last.in.tok # NoToken) =>
        IF CognitoVerifyToken(last.in.tok) = "ok"
        THEN ~Rejected /\ last.in.username = last.in.tok.username
        ELSE IF Current(last.in.tok, last.in.now)
        THEN ~Rejected /\ last.in.username = last.in.tok.username
        ELSE IF Expired(last.in.tok, last.in.now)
        THEN last.status = 401 /\ last.message = "Token expired"
        ELSE last.status = 403 /\ last.message = "Invalid or expired token"

\* a local access token is accepted while the external verifier is configured
C9_Witness ==
    /\ last.op = "profile"
    /\ last.status = Ok
    /\ cognito = "ready"
    /\ last.in.tok.iss = "local"
    /\ CognitoVerifyToken(last.in.tok) = "NotApplicable"

\* C10: a verification token that was consumed, one that a resend replaced
\* and one that was never issued get the same 404 response (when no store
\* call throws): none of them is consumable.
StaleVerification ==
    /\ last.op = "verify"
    /\ \/ last.in.wasConsumed
       \/ last.in.wasReplaced
       \/ last.in.vtok = -1

C10_StaleTokensNotFound ==
    (StaleVerification /\ ~last.obs.threw) =>
        /\ last.status = 404
        /\ last.message = "Invalid or expired verification token"
        /\ last.token = NoToken
        /\ last.refreshToken = NoToken

\* a token consumed by an earlier verify-email is presented again
C10_Witness ==
    /\ last.op = "verify"
    /\ last.in.wasConsumed
    /\ last.status = 404

\* C11: of two verify-email requests that present the same verification token
\* and run concurrently, at most one is answered 200 with a token pair: a
\* verify-email is not answered 200 for a token that another request has
\* already been answered 200 for.
C11_OneConcurrentVerifyWins ==
    (last.op = "verify" /\ last.status = Ok /\ ~last.solo) => ~last.obs.again

\* the entry that sharedImages.set stored for the presented share token
Created == CHOOSE e \in minted : e.token = last.in.share
Resolving == last.op = "shared" /\ \E e \in minted : e.token = last.in.share

\* C12: a share token created with expiresInHours = 0 is resolved by no
\* later GET /api/shared/:token, also not by one that arrives in the
\* millisecond of its creation.
C12_ZeroTtlUnresolvable ==
    (Resolving /\ Created.hours = 0) => last.status # Ok

C14_RotationAtomic ==
    /\ \A p \in Procs :
          (pc[p] = "refresh_add" /\ loc[p].obs.wrote) =>
              Includes(ItemOrBlank(loc[p].in.username).refreshTokens,
                       loc[p].refreshToken)
    /\ (last.op = "refresh" /\ last.obs.wrote) => last.status = Ok

\* C15: a registration creates the user record only when the username has
\* none; a registration for a username that has a record is answered 409 and
\* writes nothing, whether the record was there when the request arrived or
\* was created by a concurrent registration (when no store call throws).
C15_UsernameUnique ==
    (last.op = "register" /\ ~last.obs.threw) =>
        /\ last.status = 201 => (last.obs.found = "no" /\ last.obs.wrote)
        /\ last.obs.found = "yes" => (last.status = 409 /\ ~last.obs.wrote)
        /\ last.status \in {201, 409}

\* a registration that lost the race to a concurrent one for the same username
C15_Witness ==
    /\ last.op = "register"
    /\ last.status = 409
    /\ last.obs.again
    /\ store[last.in.username] # NoUser

\* C16: no register, login or refresh response returns an access or refresh
\* token for a user who has an email address and whose emailVerified flag is
\* false.
C16_VerifiedBeforeTokens ==
    (/\ last.op \in {"register", "login", "refresh"}
     /\ (last.token # NoToken \/ last.refreshToken # NoToken)
     /\ store[last.in.username] # NoUser
     /\ store[last.in.username].email # "")
        => store[last.in.username].emailVerified

\* C17: after the client's handleLogout has completed, the client holds no
\* token and the stored refresh token set of its user is empty, whether the
\* client's access token was valid or expired when logout was invoked.
C17_LogoutClearsBothSides ==
    client.at = "loggedOut" =>
        /\ client.authToken = NoToken
        /\ client.refreshToken = NoToken
        /\ store[client.username].refreshTokens = <<>>

\* C18: a call of makeAuthenticatedRequest never refreshes more than once nor
\* sends the request more than twice; a call made with an expired local access
\* token and a refresh token that is valid on the server refreshes exactly
\* once, stores the new pair and sends the request exactly twice, the second
\* time with the new access token.
C18_AutomaticRefresh ==
    /\ client.refreshes <= 1
    /\ client.fetches <= 2
    /\ (client.at = "ready" /\ client.returned # 0 /\ client.pre) =>
           /\ client.refreshes = 1
           /\ client.fetches = 2
           /\ client.sent = client.authToken
           /\ client.authToken \in issued
           /\ WellSigned(client.authToken)
           /\ client.authToken.type = ""
           /\ Includes(store[client.username].refreshTokens, client.refreshToken)

\* the call has gone through the refresh and the retry
C18_Witness ==
    /\ client.at = "ready"
    /\ client.pre
    /\ client.refreshes = 1
    /\ client.fetches = 2
    /\ client.returned = Ok

\* C19: a rejected session request changes nothing.  The answer of a login
\* refused with 401, of a refresh refused with 403 before anything was
\* stored, of a verify-email that found no user (404) and of a
\* resend-verification for an unknown (404) or already verified (400) user
\* carries no token, the step that sends it leaves every user record as it
\* was, and the handler wrote nothing on its way there.
RejectedSession ==
    \/ last.op = "login" /\ last.status = 401
    \/ last.op = "refresh" /\ last.status = 403 /\ ~last.obs.threw
    \/ last.op = "verify" /\ last.status = 404
    \/ last.op = "resend" /\ last.status \in {400, 404}

C19_RejectionsChangeNothing ==
    [][RejectedSession' =>
          /\ store' = store
          /\ ~last'.obs.wrote
          /\ last'.token = NoToken
          /\ last'.refreshToken = NoToken]_vars

\* a refresh was refused because its token is no longer in the stored set,
\* while the user holds other sessions
C19_Witness ==
    /\ last.op = "refresh" /\ last.status = 403
    /\ last.obs.member = "no"
    /\ store["anter"] # NoUser /\ Len(store["anter"].refreshTokens) > 0

\* C20: no transition back to Valid.  A refresh token that a rotation or a
\* logout took out of its user's stored set is never a member of that set
\* again.
C20_NeverValidAgain ==
    \A t \in left : ~Includes(ItemOrBlank(t.username).refreshTokens, t)

\* C21: an issued refresh token is not lost.  A step takes an issued,
\* unexpired refresh token out of its user's stored set only when it is the
\* store write of a refresh that was presented with that very token, or the
\* store write of a logout of that user; the writes of other sessions' logins
\* and refreshes leave it in the set.
InSet(st, t) ==
    st[t.username] # NoUser /\ Includes(st[t.username].refreshTokens, t)

ConsumesOrClears(t) ==
    \E p \in Procs :
        \/ pc[p] = "refresh_rm_set" /\ loc[p].in.tok = t
        \/ pc[p] = "logout_clear" /\ loc[p].in.username = t.username

C21_IssuedTokenNotLost ==
    [][\A t \in issued :
          (/\ t.type = "refresh"
           /\ Current(t, clock)
           /\ InSet(store, t)
           /\ ~InSet(store', t)) => ConsumesOrClears(t)]_vars

\* C22: the verification lookup is complete.  A verify-email whose token is
\* the stored verification token of some user record when the store is
\* scanned is answered 200 with tokens of that user (when no store call
\* throws), whatever other records the table holds.
C22_LookupComplete ==
    (last.op = "verify" /\ last.obs.held /\ ~last.obs.threw) =>
        /\ last.status = Ok
        /\ last.token.username = last.refreshToken.username
        /\ store[last.token.username] # NoUser
        /\ store[last.token.username].emailVerified

\* C23: the client refreshes only on expiry.  A call of
\* makeAuthenticatedRequest whose access token is invalid rather than expired,
\* and whose request was therefore answered 403, does not call the refresh
\* endpoint; a call that does call it started with an expired access token.
CallsRefresh == client.at = "refresh" \/ client.refreshes > 0

C23_RefreshOnlyOnExpiry ==
    /\ (client.first = 403 /\ ~WellSigned(client.held)) => ~CallsRefresh
    /\ CallsRefresh => Expired(client.held, clock)

\* C24: rotation yields a new value.  The refresh token that a successful
\* refresh returns differs from the token it was presented with, and the
\* presented token is not in the user's stored set when the response is sent.
C24_RotationYieldsNewValue ==
    Refreshed =>
        /\ last.refreshToken # last.in.tok
        /\ ~Includes(store[last.in.username].refreshTokens, last.in.tok)

\* C25: protected endpoints accept only access-kind tokens.  A request to a
\* protected endpoint (logout included) whose Bearer token is a validly
\* signed, unexpired token of kind refresh is rejected with 401 or 403 and
\* reaches no handler.
C25_OnlyAccessKind ==
    (/\ Protected
     /\ Current(last.in.tok, last.in.now)
     /\ last.in.tok.type = "refresh") => Rejected

\* C26: logout wins over an in-flight refresh.  When a logout of the user
\* has completed between the arrival of a refresh request and its response,
\* the refresh token that the refresh minted is not in the user's stored set
\* once the refresh has finished.
OvertakenByLogout ==
    /\ last.op = "refresh"
    /\ ~last.in.wasRevoked
    /\ last.in.tok \in revoked

C26_LogoutWinsOverRefresh ==
    (OvertakenByLogout /\ last.refreshToken # NoToken) =>
        ~Includes(ItemOrBlank(last.in.username).refreshTokens, last.refreshToken)

\* C27: in every reachable state a user record whose emailVerified flag is
\* true holds no verification token.
C27_VerifiedHoldsNoToken ==
    \A n \in AllNames :
        (store[n] # NoUser /\ store[n].emailVerified) =>
            store[n].emailVerificationToken = 0

\* C28: concurrent client requests keep the session.  When two calls of
\* makeAuthenticatedRequest were both answered 401 for the same expired access
\* token and both entered refreshAuthToken with the same refresh token, valid
\* on the server at that moment, then once both calls have completed the
\* client is not logged out, it holds an access token the server accepts and
\* a refresh token that is in its user's stored set.
BothRefreshed ==
    /\ \A c \in CallIds :
          /\ calls[c].at = "done"
          /\ calls[c].first = 401
          /\ Expired(calls[c].tok, clock)
          /\ calls[c].valid
    /\ calls["c1"].tok = calls["c2"].tok
    /\ calls["c1"].rtok = calls["c2"].rtok
    /\ \A p \in Procs : pc[p] = "idle"

C28_ConcurrentCallsKeepSession ==
    BothRefreshed =>
        /\ client.at = "ready"
        /\ Current(client.authToken, clock)
        /\ client.authToken.type = ""
        /\ Includes(store[client.username].refreshTokens, client.refreshToken)

\* C29: session operations are isolated per subject.  Every token in a
\* user's stored set carries that user's username; a step of a refresh or of
\* a logout changes no record but the one named in the token it was
\* presented with, and every refresh token it puts into or takes out of a
\* stored set carries the id and the username of that token's subject; a
\* refresh returns tokens for that same subject.
TokensCarryOwner ==
    \A n \in AllNames :
        store[n] # NoUser =>
            \A i \in 1..Len(store[n].refreshTokens) :
                store[n].refreshTokens[i].username = n

Holds(st, n, t) == st[n] # NoUser /\ Includes(st[n].refreshTokens, t)

SameSubject(t, u) == t.id = u.id /\ t.username = u.username

C29_SubjectIsolation ==
    [][/\ TokensCarryOwner /\ TokensCarryOwner'
       /\ \A p \in Procs :
             (pc[p] # "idle" /\ pc'[p] # pc[p]
                /\ loc[p].op \in {"refresh", "logout"}) =>
                 /\ \A n \in AllNames :
                       store'[n] # store[n] => n = loc[p].in.tok.username
                 /\ \A n \in AllNames, t \in issued' :
                       (Holds(store, n, t) # Holds(store', n, t)) =>
                           SameSubject(t, loc[p].in.tok)
       /\ Refreshed' =>
             /\ SameSubject(last'.token, last'.in.tok)
             /\ SameSubject(last'.refreshToken, last'.in.tok)]_vars

\* C30: user records are created only by registration.  A step that gives a
\* record to a username that had none is the createUser of a registration;
\* no step of login, refresh, logout, verify-email or resend-verification
\* does.
C30_OnlyRegistrationCreates ==
    [][\A n \in AllNames :
          (store[n] = NoUser /\ store'[n] # NoUser) =>
              \E p \in Procs :
                  /\ pc[p] = "register_create"
                  /\ loc[p].in.username = n]_vars

====
